---- MODULE Spec2Model ----
(***************************************************************************)
(* Model of the llm_to_tts program: main.py runs test_cdp_connection, then *)
(* navigate_with_specific_selectors (navigate_and_extract_content with the *)
(* compiled-in selectors), then generate_audio_file.                       *)
(*                                                                         *)
(* The program is single threaded; pc is the position of its one thread.   *)
(* Every call into the browser automation library or the synthesis engine  *)
(* is a step whose outcome (return value or raised error) is chosen by the *)
(* environment.  browser.close() is taken to succeed whenever it is called.*)
(***************************************************************************)
EXTENDS Integers, Sequences, FiniteSets, TLC

(***************************************************************************)
(* Bounds of the model.                                                    *)
(***************************************************************************)
MaxElems == 2

(***************************************************************************)
(* Compiled-in configuration.                                              *)
(***************************************************************************)
ClassMarker == "group/notification-list-item"
ContentSelector == "#markdown-content-0 > div > div > div"
ClickSelector == "#root ... > span > div > div > button"
InitialUrl == "https://www.perplexity.ai/"
OutputFile == "content.wav"
Allowlist == {"p", "h2", "h3", "h4", "ul", "ol", "pre", "code"}

(***************************************************************************)
(* Values the environment can produce.                                     *)
(***************************************************************************)
NullValue == "None"
TargetHref == "https://www.perplexity.ai/page/1"
HrefValues == {NullValue, "", TargetHref}
Whitespace == {" "}
\* rendered inner texts: blank, plain, padded, and with inner whitespace
Texts == { <<" ">>, <<"a">>, <<" ", "b", " ">>, <<"a", " ", "b">> }
\* tagName as the DOM reports it for HTML elements; DIV is not allowlisted
ElemTags == {"P", "H2", "DIV"}
Elements == [tagName : ElemTags, innerText : Texts]
SeqsUpTo(S, n) == UNION { [1..k -> S] : k \in 0..n }
Doms == SeqsUpTo(Elements, MaxElems)

(***************************************************************************)
(* Exceptions.  names is the selector or marker the message contains.      *)
(***************************************************************************)
NoExc == [type |-> "none", names |-> ""]
PlaywrightError == [type |-> "playwright.Error", names |-> ""]
SynthesisError == [type |-> "SynthesisError", names |-> ""]
MarkerException == [type |-> "Exception", names |-> ClassMarker]
SelectorException == [type |-> "Exception", names |-> ContentSelector]

VARIABLES
  pc,                 \* position of the program
  testBrowser,        \* handle acquired by test_cdp_connection
  pipeBrowser,        \* handle acquired by navigate_and_extract_content
  testResult,         \* return value of test_cdp_connection
  exitCode,           \* process exit code, -1 while running
  exc,                \* exception in flight
  printed,            \* error messages printed by the top level
  warnings,           \* warnings printed by navigate_and_extract_content
  faults,             \* calls that have failed so far
  steps,              \* calls made by navigate_and_extract_content, in order
  href,               \* result of the link lookup
  clicked,            \* click_element.click() has returned
  content_container,  \* result of new_page.query_selector
  dom,                \* descendants of the container, document order
  all_children,       \* result of query_selector_all
  collected_content,  \* items collected by the loop
  result,             \* <<>> or <<the dict returned>>
  synthCalls,         \* texts passed to generate_audio_file
  files               \* output files written

vars == <<pc, testBrowser, pipeBrowser, testResult, exitCode, exc, printed,
          warnings, faults, steps, href, clicked, content_container, dom,
          all_children, collected_content, result, synthCalls, files>>

browserVars == <<testBrowser, pipeBrowser>>
mainVars == <<testResult, exitCode, printed, synthCalls, files>>
navVars == <<warnings, steps, href, clicked, content_container, dom,
             all_children, collected_content, result>>

Init ==
  /\ pc = "import"
  /\ testBrowser = "none"
  /\ pipeBrowser = "none"
  /\ testResult = "unset"
  /\ exitCode = -1
  /\ exc = NoExc
  /\ printed = <<>>
  /\ warnings = <<>>
  /\ faults = {}
  /\ steps = <<>>
  /\ href = "unset"
  /\ clicked = FALSE
  /\ content_container = "unset"
  /\ dom = <<>>
  /\ all_children = <<>>
  /\ collected_content = <<>>
  /\ result = <<>>
  /\ synthCalls = <<>>
  /\ files = {}

(***************************************************************************)
(* Pure functions                                                          *)
(***************************************************************************)
\* el.tagName.toLowerCase()
ToLowerCase(t) ==
  CASE t = "P" -> "p"
    [] t = "H2" -> "h2"
    [] t = "DIV" -> "div"
    [] OTHER -> t

RECURSIVE LStrip(_)
LStrip(s) ==
  IF s = <<>> THEN s
  ELSE IF Head(s) \in Whitespace THEN LStrip(Tail(s)) ELSE s

RECURSIVE RStrip(_)
RStrip(s) ==
  IF s = <<>> THEN s
  ELSE IF s[Len(s)] \in Whitespace THEN RStrip(SubSeq(s, 1, Len(s) - 1)) ELSE s

\* str.strip()
Strip(s) == RStrip(LStrip(s))

\* content_container.query_selector_all('p, h2, h3, h4, ul, ol, pre, code')
QuerySelectorAll(d) ==
  SelectSeq(d, LAMBDA el : ToLowerCase(el.tagName) \in Allowlist)

RECURSIVE Collect_NoTrim(_, _)
Collect_NoTrim(children, acc) ==
  IF children = <<>> THEN acc
  ELSE LET element == Head(children)
           tag_name == ToLowerCase(element.tagName)
           text == element.innerText
       IN  Collect_NoTrim(Tail(children),
                          IF text # <<>>
                            THEN Append(acc, [tag |-> tag_name, text |-> text])
                            ELSE acc)

\* the for loop over all_children, appending to collected_content
RECURSIVE Collect(_, _)
Collect(children, acc) ==
  IF children = <<>> THEN acc
  ELSE LET element == Head(children)
           tag_name == ToLowerCase(element.tagName)
           text == Strip(element.innerText)
       IN  Collect(Tail(children),
                   IF text # <<>>
                     THEN Append(acc, [tag |-> tag_name, text |-> text])
                     ELSE acc)

\* sep.join(list)
RECURSIVE Join(_, _)
Join(sep, list) ==
  IF list = <<>> THEN <<>>
  ELSE IF Len(list) = 1 THEN list[1]
  ELSE list[1] \o sep \o Join(sep, Tail(list))

ItemTexts(content) == [i \in 1..Len(content) |-> content[i].text]

FullText_SingleNewline(content) == Join(<<"\n">>, ItemTexts(content))

\* '\n\n'.join([item['text'] for item in collected_content])
FullText(content) == Join(<<"\n", "\n">>, ItemTexts(content))

\* reduce(lambda x, y: x + y['text'], content, "")
RECURSIVE Reduce(_, _)
Reduce(content, acc) ==
  IF content = <<>> THEN acc
  ELSE Reduce(Tail(content), acc \o Head(content).text)

(***************************************************************************)
(* main.py, imports: tts.py loads the synthesis model at import time; an   *)
(* exception here is uncaught and the interpreter exits with code 1        *)
(***************************************************************************)
MainImport ==
  /\ pc = "import"
  /\ \/ /\ pc' = "t_connect"
        /\ UNCHANGED <<exitCode, faults>>
     \/ /\ pc' = "done"
        /\ exitCode' = 1
        /\ faults' = faults \cup {"model_load"}
  /\ UNCHANGED <<browserVars, testResult, exc, printed, synthCalls, files,
                 navVars>>

(***************************************************************************)
(* test_cdp_connection                                                     *)
(***************************************************************************)
\* a call inside the try of test_cdp_connection raises: control goes to the
\* except clause, no browser.close() on the way
TestRaise(name) ==
  /\ pc' = "t_except"
  /\ exc' = PlaywrightError
  /\ faults' = faults \cup {name}
  /\ UNCHANGED <<browserVars, mainVars, navVars>>

\* the call returns
TestOk(next) ==
  /\ pc' = next
  /\ UNCHANGED <<browserVars, exc, faults, mainVars, navVars>>

\* browser = p.chromium.connect_over_cdp(cdp_url)
TConnect ==
  /\ pc = "t_connect"
  /\ \/ /\ pc' = "t_context"
        /\ testBrowser' = "open"
        /\ UNCHANGED <<pipeBrowser, exc, faults, mainVars, navVars>>
     \/ TestRaise("test_connect")

\* context = browser.contexts[0]
TContext ==
  /\ pc = "t_context"
  /\ (TestOk("t_page") \/ TestRaise("test_contexts"))

\* page = context.pages[0] or context.new_page()
TPage ==
  /\ pc = "t_page"
  /\ (TestOk("t_goto") \/ TestRaise("test_page"))

\* page.goto("https://example.com", wait_until="networkidle")
TGoto ==
  /\ pc = "t_goto"
  /\ (TestOk("t_title") \/ TestRaise("test_goto"))

\* title = page.title()
TTitle ==
  /\ pc = "t_title"
  /\ (TestOk("t_close") \/ TestRaise("test_title"))

\* browser.close(); return True
TClose ==
  /\ pc = "t_close"
  /\ testBrowser' = "closed"
  /\ testResult' = "True"
  /\ pc' = "m_after_test"
  /\ UNCHANGED <<pipeBrowser, exitCode, exc, printed, synthCalls, files,
                 faults, navVars>>

\* except Exception: print; return False
TExcept ==
  /\ pc = "t_except"
  /\ exc' = NoExc
  /\ testResult' = "False"
  /\ pc' = "m_after_test"
  /\ UNCHANGED <<browserVars, exitCode, printed, synthCalls, files,
                 faults, navVars>>

(***************************************************************************)
(* main.py, first half                                                     *)
(***************************************************************************)
MainAfterTest_NoExit ==
  /\ pc = "m_after_test"
  /\ pc' = "n_connect"
  /\ UNCHANGED <<browserVars, testResult, exitCode, exc, printed, synthCalls,
                 files, faults, navVars>>

\* if not test_cdp_connection(): ... exit(1)
MainAfterTest ==
  /\ pc = "m_after_test"
  /\ IF testResult = "True"
       THEN /\ pc' = "n_connect"
            /\ UNCHANGED exitCode
       ELSE /\ pc' = "done"
            /\ exitCode' = 1
  /\ UNCHANGED <<browserVars, testResult, exc, printed, synthCalls, files,
                 faults, navVars>>

(***************************************************************************)
(* navigate_and_extract_content, called by                                 *)
(* navigate_with_specific_selectors with ClickSelector and ContentSelector *)
(***************************************************************************)
Log(step, pg) == steps' = Append(steps, [step |-> step, page |-> pg])

\* a call before the try raises: the exception leaves the function without
\* passing through the finally clause
NavRaiseOutside(name) ==
  /\ pc' = "m_except"
  /\ exc' = PlaywrightError
  /\ faults' = faults \cup {name}

\* an exception raised inside the try: control goes to the finally clause
NavRaise(e, name) ==
  /\ pc' = "n_finally"
  /\ exc' = e
  /\ faults' = faults \cup {name}

\* browser = p.chromium.connect_over_cdp(cdp_url)
NConnect ==
  /\ pc = "n_connect"
  /\ \/ /\ pc' = "n_context"
        /\ pipeBrowser' = "open"
        /\ UNCHANGED <<testBrowser, exc, faults>>
     \/ /\ NavRaiseOutside("connect")
        /\ UNCHANGED browserVars
  /\ UNCHANGED <<mainVars, navVars>>

\* context = browser.contexts[0]
NContext ==
  /\ pc = "n_context"
  /\ \/ /\ pc' = "n_page"
        /\ UNCHANGED <<exc, faults>>
     \/ NavRaiseOutside("contexts")
  /\ UNCHANGED <<browserVars, mainVars, navVars>>

\* page = context.pages[0] or context.new_page()
NPage ==
  /\ pc = "n_page"
  /\ \/ /\ pc' = "n_goto"
        /\ UNCHANGED <<exc, faults>>
     \/ NavRaiseOutside("page")
  /\ UNCHANGED <<browserVars, mainVars, navVars>>

\* page.goto(initial_url, wait_until="domcontentloaded", timeout=60000)
NGoto ==
  /\ pc = "n_goto"
  /\ Log("goto_initial", "page")
  /\ \/ /\ pc' = "n_settle"
        /\ UNCHANGED <<exc, faults>>
     \/ NavRaise(PlaywrightError, "goto_initial")
  /\ UNCHANGED <<browserVars, mainVars, warnings, href, clicked,
                 content_container, dom, all_children, collected_content,
                 result>>

\* page.wait_for_timeout(wait_time); if click_selector:
NSettle ==
  /\ pc = "n_settle"
  /\ Log("settle", "page")
  /\ \/ /\ pc' = IF ClickSelector # "" THEN "n_click_wait" ELSE "n_href"
        /\ UNCHANGED <<exc, faults>>
     \/ NavRaise(PlaywrightError, "settle")
  /\ UNCHANGED <<browserVars, mainVars, warnings, href, clicked,
                 content_container, dom, all_children, collected_content,
                 result>>

\* except Exception as e: print(f"Warning: Could not click element: {e}")
ClickExcept_Propagate(name) ==
  /\ exc' = PlaywrightError
  /\ faults' = faults \cup {name}
  /\ pc' = "n_finally"
  /\ UNCHANGED warnings

ClickExcept(name) ==
  /\ warnings' = Append(warnings, "Could not click element")
  /\ faults' = faults \cup {name}
  /\ pc' = "n_href"
  /\ UNCHANGED exc

\* page.wait_for_selector(click_selector, timeout=wait_time)
NClickWait ==
  /\ pc = "n_click_wait"
  /\ Log("click_wait", "page")
  /\ \/ /\ pc' = "n_click_query"
        /\ UNCHANGED <<warnings, faults, exc>>
     \/ ClickExcept("click_wait")
  /\ UNCHANGED <<browserVars, mainVars, href, clicked,
                 content_container, dom, all_children, collected_content,
                 result>>

\* click_element = page.query_selector(click_selector); if click_element:
NClickQuery ==
  /\ pc = "n_click_query"
  /\ Log("click_query", "page")
  /\ \/ /\ pc' = "n_click"
        /\ UNCHANGED <<warnings, faults, exc>>
     \/ /\ warnings' = Append(warnings, "Click element not found")
        /\ faults' = faults \cup {"click_absent"}
        /\ pc' = "n_href"
        /\ UNCHANGED exc
     \/ ClickExcept("click_query")
  /\ UNCHANGED <<browserVars, mainVars, href, clicked,
                 content_container, dom, all_children, collected_content,
                 result>>

\* click_element.click()
NClick ==
  /\ pc = "n_click"
  /\ Log("click", "page")
  /\ \/ /\ pc' = "n_click_pause"
        /\ clicked' = TRUE
        /\ UNCHANGED <<warnings, faults, exc>>
     \/ /\ ClickExcept("click")
        /\ UNCHANGED clicked
  /\ UNCHANGED <<browserVars, mainVars, href,
                 content_container, dom, all_children, collected_content,
                 result>>

\* page.wait_for_timeout(2000)
NClickPause ==
  /\ pc = "n_click_pause"
  /\ Log("click_pause", "page")
  /\ \/ /\ pc' = "n_href"
        /\ UNCHANGED <<warnings, faults, exc>>
     \/ ClickExcept("click_pause")
  /\ UNCHANGED <<browserVars, mainVars, href, clicked,
                 content_container, dom, all_children, collected_content,
                 result>>

\* href = page.evaluate(...); if not href:
NHref ==
  /\ pc = "n_href"
  /\ Log("link_resolution", "page")
  /\ \/ \E h \in HrefValues :
          /\ href' = h
          /\ pc' = IF h = NullValue \/ h = "" THEN "n_debug_title"
                   ELSE "n_new_page"
          /\ UNCHANGED <<exc, faults>>
     \/ /\ NavRaise(PlaywrightError, "link_resolution")
        /\ UNCHANGED href
  /\ UNCHANGED <<browserVars, mainVars, warnings, clicked,
                 content_container, dom, all_children, collected_content,
                 result>>

\* print("Page title:", page.title())
NDebugTitle ==
  /\ pc = "n_debug_title"
  /\ Log("debug_title", "page")
  /\ \/ /\ pc' = "n_debug_count"
        /\ UNCHANGED <<exc, faults>>
     \/ NavRaise(PlaywrightError, "debug_title")
  /\ UNCHANGED <<browserVars, mainVars, warnings, href, clicked,
                 content_container, dom, all_children, collected_content,
                 result>>

\* classes_found = page.evaluate(...); raise Exception(...marker...)
NDebugCount ==
  /\ pc = "n_debug_count"
  /\ Log("debug_count", "page")
  /\ \/ NavRaise(MarkerException, "link_missing")
     \/ NavRaise(PlaywrightError, "debug_count")
  /\ UNCHANGED <<browserVars, mainVars, warnings, href, clicked,
                 content_container, dom, all_children, collected_content,
                 result>>

\* new_page = context.new_page()
NNewPage ==
  /\ pc = "n_new_page"
  /\ Log("new_tab", "new_page")
  /\ \/ /\ pc' = "n_new_goto"
        /\ UNCHANGED <<exc, faults>>
     \/ NavRaise(PlaywrightError, "new_tab")
  /\ UNCHANGED <<browserVars, mainVars, warnings, href, clicked,
                 content_container, dom, all_children, collected_content,
                 result>>

\* new_page.goto(href, wait_until="domcontentloaded", timeout=60000)
NNewGoto ==
  /\ pc = "n_new_goto"
  /\ Log("goto_target", "new_page")
  /\ \/ /\ pc' = "n_new_settle"
        /\ UNCHANGED <<exc, faults>>
     \/ NavRaise(PlaywrightError, "goto_target")
  /\ UNCHANGED <<browserVars, mainVars, warnings, href, clicked,
                 content_container, dom, all_children, collected_content,
                 result>>

\* new_page.wait_for_timeout(wait_time)
NNewSettle ==
  /\ pc = "n_new_settle"
  /\ Log("settle_target", "new_page")
  /\ \/ /\ pc' = "n_wait_container"
        /\ UNCHANGED <<exc, faults>>
     \/ NavRaise(PlaywrightError, "settle_target")
  /\ UNCHANGED <<browserVars, mainVars, warnings, href, clicked,
                 content_container, dom, all_children, collected_content,
                 result>>

NWaitContainer_Retry ==
  /\ pc = "n_wait_container"
  /\ Log("container_wait", "new_page")
  /\ \/ /\ pc' = "n_query_container"
        /\ UNCHANGED <<warnings, faults>>
     \/ /\ pc' = "n_wait_container"
        /\ warnings' = Append(warnings, "Content element not found")
        /\ faults' = faults \cup {"container_wait"}
  /\ UNCHANGED <<browserVars, mainVars, exc, href, clicked,
                 content_container, dom, all_children, collected_content,
                 result>>

\* try: new_page.wait_for_selector(content_selector, timeout=wait_time)
\* except Exception: print(f"Warning: Content element not found ...")
NWaitContainer ==
  /\ pc = "n_wait_container"
  /\ Log("container_wait", "new_page")
  /\ pc' = "n_query_container"
  /\ \/ UNCHANGED <<warnings, faults>>
     \/ /\ warnings' = Append(warnings, "Content element not found")
        /\ faults' = faults \cup {"container_wait"}
  /\ UNCHANGED <<browserVars, mainVars, exc, href, clicked,
                 content_container, dom, all_children, collected_content,
                 result>>

\* content_container = new_page.query_selector(content_selector)
\* if not content_container:
NQueryContainer ==
  /\ pc = "n_query_container"
  /\ Log("container_resolve", "new_page")
  /\ \/ /\ content_container' = "handle"
        /\ pc' = "n_query_all"
        /\ UNCHANGED <<exc, faults>>
     \/ /\ content_container' = NullValue
        /\ pc' = "n_debug_title2"
        /\ UNCHANGED <<exc, faults>>
     \/ /\ NavRaise(PlaywrightError, "container_resolve")
        /\ UNCHANGED content_container
  /\ UNCHANGED <<browserVars, mainVars, warnings, href, clicked,
                 dom, all_children, collected_content, result>>

\* print("Page title:", new_page.title()); raise Exception(...selector...)
NDebugTitle2 ==
  /\ pc = "n_debug_title2"
  /\ Log("debug_title2", "new_page")
  /\ \/ NavRaise(SelectorException, "container_missing")
     \/ NavRaise(PlaywrightError, "debug_title2")
  /\ UNCHANGED <<browserVars, mainVars, warnings, href, clicked,
                 content_container, dom, all_children, collected_content,
                 result>>

\* all_children = content_container.query_selector_all(...)
NQueryAll ==
  /\ pc = "n_query_all"
  /\ Log("query_all", "new_page")
  /\ \/ \E d \in Doms :
          /\ dom' = d
          /\ all_children' = QuerySelectorAll(d)
          /\ pc' = "n_loop"
          /\ UNCHANGED <<exc, faults>>
     \/ /\ NavRaise(PlaywrightError, "query_all")
        /\ UNCHANGED <<dom, all_children>>
  /\ UNCHANGED <<browserVars, mainVars, warnings, href, clicked,
                 content_container, collected_content, result>>

\* collected_content = []; for element in all_children: ...
NLoop ==
  /\ pc = "n_loop"
  /\ Log("extract", "new_page")
  /\ \/ /\ collected_content' = Collect(all_children, <<>>)
        /\ pc' = "n_result"
        /\ UNCHANGED <<exc, faults>>
     \/ /\ all_children # <<>>
        /\ NavRaise(PlaywrightError, "extract")
        /\ UNCHANGED collected_content
  /\ UNCHANGED <<browserVars, mainVars, warnings, href, clicked,
                 content_container, dom, all_children, result>>

\* result = {...}; print ...; return result
NResult ==
  /\ pc = "n_result"
  /\ Log("title", "new_page")
  /\ \/ /\ result' = << [initial_url |-> InitialUrl,
                         target_url |-> href,
                         content |-> collected_content,
                         full_text |-> FullText(collected_content)] >>
        /\ pc' = "n_finally"
        /\ UNCHANGED <<exc, faults>>
     \/ /\ NavRaise(PlaywrightError, "title")
        /\ UNCHANGED result
  /\ UNCHANGED <<browserVars, mainVars, warnings, href, clicked,
                 content_container, dom, all_children, collected_content>>

NFinally_NoClose ==
  /\ pc = "n_finally"
  /\ pc' = IF exc = NoExc THEN "m_result" ELSE "m_except"
  /\ UNCHANGED <<browserVars, mainVars, exc, faults, navVars>>

\* finally: browser.close()
NFinally ==
  /\ pc = "n_finally"
  /\ pipeBrowser' = "closed"
  /\ pc' = IF exc = NoExc THEN "m_result" ELSE "m_except"
  /\ UNCHANGED <<testBrowser, mainVars, exc, faults, navVars>>

(***************************************************************************)
(* main.py, second half                                                    *)
(***************************************************************************)
\* content = reduce(...); generate_audio_file(content, "content.wav")
MainSynthesize ==
  /\ pc = "m_result"
  /\ synthCalls' = Append(synthCalls, Reduce(result[1].content, <<>>))
  /\ \/ /\ files' = files \cup {OutputFile}
        /\ pc' = "done"
        /\ exitCode' = 0
        /\ UNCHANGED <<exc, faults, printed>>
     \/ /\ exc' = SynthesisError
        /\ faults' = faults \cup {"synthesis"}
        /\ pc' = "m_except"
        /\ UNCHANGED <<files, exitCode, printed>>
  /\ UNCHANGED <<browserVars, testResult, navVars>>

MainExcept_ExitZero ==
  /\ pc = "m_except"
  /\ printed' = Append(printed, exc)
  /\ exitCode' = 0
  /\ pc' = "done"
  /\ UNCHANGED <<browserVars, testResult, exc, synthCalls, files, faults,
                 navVars>>

\* except Exception as e: print(f"Error during scraping: {e}"); exit(1)
MainExcept ==
  /\ pc = "m_except"
  /\ printed' = Append(printed, exc)
  /\ exitCode' = 1
  /\ pc' = "done"
  /\ UNCHANGED <<browserVars, testResult, exc, synthCalls, files, faults,
                 navVars>>

Next ==
  \/ MainImport
  \/ TConnect \/ TContext \/ TPage \/ TGoto \/ TTitle \/ TClose \/ TExcept
  \/ MainAfterTest
  \/ NConnect \/ NContext \/ NPage \/ NGoto \/ NSettle
  \/ NClickWait \/ NClickQuery \/ NClick \/ NClickPause
  \/ NHref \/ NDebugTitle \/ NDebugCount
  \/ NNewPage \/ NNewGoto \/ NNewSettle
  \/ NWaitContainer \/ NQueryContainer \/ NDebugTitle2
  \/ NQueryAll \/ NLoop \/ NResult \/ NFinally
  \/ MainSynthesize \/ MainExcept

Spec == Init /\ [][Next]_vars

(***************************************************************************)
(* Vocabulary of the properties                                            *)
(***************************************************************************)
TestPcs == {"t_connect", "t_context", "t_page", "t_goto", "t_title",
            "t_close", "t_except"}
ClickPcs == {"n_click_wait", "n_click_query", "n_click", "n_click_pause"}
NavPcs == {"n_connect", "n_context", "n_page", "n_goto", "n_settle",
           "n_href", "n_debug_title", "n_debug_count", "n_new_page",
           "n_new_goto", "n_new_settle", "n_wait_container",
           "n_query_container", "n_debug_title2", "n_query_all", "n_loop",
           "n_result", "n_finally"} \cup ClickPcs
TestFaults == {"test_connect", "test_contexts", "test_page", "test_goto",
               "test_title"}
ClickFaults == {"click_wait", "click_absent", "click_query", "click",
                "click_pause"}
ToleratedFaults == ClickFaults \cup {"container_wait"}
HasStep(name) == \E i \in 1..Len(steps) : steps[i].step = name
LinkMissing == href = NullValue \/ href = ""

(***************************************************************************)
(* C1: every browser handle acquired by test_cdp_connection or by          *)
(* navigate_and_extract_content has been closed with browser.close() once  *)
(* the function that acquired it has exited, whatever the exit path.       *)
(***************************************************************************)
C1_ReleasedOnEveryExit ==
  /\ (pc \notin TestPcs /\ testBrowser # "none") => testBrowser = "closed"
  /\ (pc \notin (TestPcs \cup NavPcs \cup {"m_after_test"})
        /\ pipeBrowser # "none") => pipeBrowser = "closed"

(***************************************************************************)
(* C2: a run in which a fatal error occurred ends with exit code 1 and     *)
(* without the output file, and generate_audio_file is called only when    *)
(* navigate_with_specific_selectors returned a result.                     *)
(***************************************************************************)
C2_FailedRunNoOutput ==
  /\ (pc = "done" /\ faults \ ToleratedFaults # {})
        => (exitCode = 1 /\ OutputFile \notin files)
  /\ synthCalls # <<>> => result # <<>>
  /\ OutputFile \in files => synthCalls # <<>>

C2_Witness ==
  /\ pc = "done"
  /\ "synthesis" \in faults
  /\ exitCode = 1

(***************************************************************************)
(* C3: the extraction loop returns one item per allowlisted descendant     *)
(* with non-empty trimmed text, carrying its lower-cased tag and trimmed   *)
(* text, in document order, without deduplication; an empty container      *)
(* gives the empty sequence and the loop does not fail on it.              *)
(***************************************************************************)
LowerTag == [t \in ElemTags |->
               IF t = "P" THEN "p" ELSE IF t = "H2" THEN "h2" ELSE "div"]
NonBlank(s) == { j \in 1..Len(s) : s[j] \notin Whitespace }
Min(S) == CHOOSE x \in S : \A y \in S : x <= y
Max(S) == CHOOSE x \in S : \A y \in S : x >= y
Trimmed(s) == SubSeq(s, Min(NonBlank(s)), Max(NonBlank(s)))
Kept == { i \in 1..Len(dom) :
            /\ LowerTag[dom[i].tagName] \in Allowlist
            /\ NonBlank(dom[i].innerText) # {} }
Position(i) == Cardinality({ j \in Kept : j <= i })
LoopDone == HasStep("extract") /\ "extract" \notin faults

C3_OrderedExtraction ==
  /\ LoopDone =>
       /\ Len(collected_content) = Cardinality(Kept)
       /\ \A i \in Kept :
            /\ collected_content[Position(i)].tag = LowerTag[dom[i].tagName]
            /\ collected_content[Position(i)].text = Trimmed(dom[i].innerText)
  /\ (HasStep("extract") /\ dom = <<>>)
       => ("extract" \notin faults /\ collected_content = <<>>)

C3_Witness ==
  /\ LoopDone
  /\ Cardinality(Kept) >= 1
  /\ Cardinality(Kept) < Len(all_children)
  /\ Len(all_children) < Len(dom) \/ Len(dom) = 2

(***************************************************************************)
(* C4: when the link lookup returns null or the empty string, the run      *)
(* ends with an error whose message names the class marker, and in that    *)
(* run no tab was opened, the container was never queried, nothing was     *)
(* extracted and no audio file was written.                                *)
(***************************************************************************)
C4_MissingLinkNamesMarker ==
  (pc = "done" /\ LinkMissing) =>
    /\ exitCode = 1
    /\ Len(printed) = 1
    /\ printed[1].names = ClassMarker
    /\ ~HasStep("new_tab")
    /\ content_container = "unset"
    /\ collected_content = <<>>
    /\ files = {}

(***************************************************************************)
(* C5: after the new-tab navigation the run fails with an error naming     *)
(* the container selector exactly when the container is absent at the      *)
(* re-check; a timed-out wait is only a warning, a present container is    *)
(* extracted from even after a timed-out wait, and no result is returned   *)
(* when the container is absent.                                           *)
(***************************************************************************)
NamesSelector ==
  /\ printed # <<>>
  /\ printed[1].names = ContentSelector

C5_ContainerRecheck ==
  /\ (pc = "done" /\ content_container # "unset")
       => (NamesSelector <=> content_container = NullValue)
  /\ content_container = NullValue => result = <<>>
  /\ (content_container = "handle" /\ pc \notin {"n_query_all"})
       => HasStep("query_all")
  /\ "container_wait" \in faults
       => (HasStep("container_resolve") \/ pc = "n_query_container")

(***************************************************************************)
(* C6: whatever way the click step fails, a warning is logged and the      *)
(* pipeline goes on to link resolution with no exception raised; the       *)
(* 2000 ms pause is made only after a click that returned; a failed run    *)
(* always has a failure outside the click step.                            *)
(***************************************************************************)
C6_ClickTolerated ==
  /\ faults \cap ClickFaults # {} =>
       /\ \E i \in 1..Len(warnings) :
            warnings[i] \in {"Could not click element",
                             "Click element not found"}
       /\ pc = "n_href" => exc = NoExc
       /\ pc # "n_href" => HasStep("link_resolution")
  /\ HasStep("click_pause") => clicked
  /\ exitCode = 1 => faults \ ToleratedFaults # {}

C6_Witness ==
  /\ pc = "done"
  /\ exitCode = 0
  /\ "click_wait" \in faults

(***************************************************************************)
(* C7: within one call of navigate_and_extract_content the steps are made  *)
(* in the fixed order, each at most once, nothing is made again after a    *)
(* failure, and the container is waited for, resolved and read on the new  *)
(* tab only.                                                               *)
(***************************************************************************)
StepOrder == << "goto_initial", "settle", "click_wait", "click_query",
                "click", "click_pause", "link_resolution", "debug_title",
                "debug_count", "new_tab", "goto_target", "settle_target",
                "container_wait", "container_resolve", "debug_title2",
                "query_all", "extract", "title" >>
StepRank(name) == CHOOSE k \in 1..Len(StepOrder) : StepOrder[k] = name

C7_LinearNoRetry ==
  /\ \A i \in 1..Len(steps) :
       /\ \E k \in 1..Len(StepOrder) : StepOrder[k] = steps[i].step
       /\ \A j \in 1..Len(steps) :
            i < j => StepRank(steps[i].step) < StepRank(steps[j].step)
       /\ steps[i].step \in {"container_wait", "container_resolve",
                             "query_all", "extract"}
            => steps[i].page = "new_page"
       /\ steps[i].step \in {"goto_initial", "settle", "link_resolution"}
            => steps[i].page = "page"
  /\ exc # NoExc => pc \in {"t_except", "n_finally", "m_except", "done"}

C7_Witness ==
  /\ pc = "done"
  /\ HasStep("click_pause")
  /\ HasStep("extract")
  /\ "container_wait" \in faults

(***************************************************************************)
(* C8: the connection test comes first; when it fails the process exits    *)
(* with code 1 and the pipeline never starts; the pipeline runs only after *)
(* the test returned True.                                                 *)
(***************************************************************************)
PipelineStarted ==
  \/ pc \in NavPcs \cup {"m_result", "m_except"}
  \/ pipeBrowser # "none"
  \/ steps # <<>>
  \/ synthCalls # <<>>
  \/ printed # <<>>

C8_TestGatesPipeline ==
  /\ (faults \cap TestFaults # {} /\ pc \notin TestPcs)
       => (testResult = "False" /\ ~PipelineStarted)
  /\ (pc = "done" /\ testResult = "False") => exitCode = 1
  /\ PipelineStarted => (testResult = "True" /\ faults \cap TestFaults = {})
  /\ pc \in TestPcs \cup {"import"} => ~PipelineStarted

C8_Witness ==
  /\ pc = "done"
  /\ "test_goto" \in faults
  /\ exitCode = 1

(***************************************************************************)
(* C9: full_text is the item texts in extraction order with two newlines   *)
(* between consecutive items; the text given to generate_audio_file is the *)
(* same texts in the same order with nothing between them.                 *)
(***************************************************************************)
RECURSIVE SumLen(_, _)
SumLen(items, n) == IF n = 0 THEN 0 ELSE SumLen(items, n - 1) + Len(items[n].text)

IsConcatWithGap(text, items, gap) ==
  /\ Len(text) = SumLen(items, Len(items))
                   + (IF items = <<>> THEN 0 ELSE gap * (Len(items) - 1))
  /\ \A i \in 1..Len(items) :
       LET off == SumLen(items, i - 1) + gap * (i - 1)
       IN  /\ SubSeq(text, off + 1, off + Len(items[i].text)) = items[i].text
           /\ i < Len(items) =>
                \A k \in 1..gap : text[off + Len(items[i].text) + k] = "\n"

C9_JoinPolicies ==
  /\ result # <<>> =>
       /\ result[1].content = collected_content
       /\ IsConcatWithGap(result[1].full_text, result[1].content, 2)
  /\ synthCalls # <<>> =>
       IsConcatWithGap(synthCalls[1], result[1].content, 0)

C9_Witness ==
  /\ synthCalls # <<>>
  /\ Len(result[1].content) >= 2
  /\ result[1].content[1].text # result[1].content[2].text

(***************************************************************************)
(* C10: generate_audio_file is called at most once, and only when the      *)
(* pipeline's browser handle has been closed by the finally clause; no     *)
(* handle the program opened is open while synthesis runs.                 *)
(***************************************************************************)
C10_SynthesisAfterClose ==
  /\ Len(synthCalls) <= 1
  /\ (pc = "m_result" \/ synthCalls # <<>>)
       => (pipeBrowser = "closed" /\ testBrowser = "closed")

C10_Witness ==
  /\ synthCalls # <<>>
  /\ OutputFile \in files
====
